---------------------------- MODULE Spec2Model ----------------------------
(***************************************************************************)
(* Contact / phone reconciliation subsystem of fadhi-front.                *)
(*                                                                         *)
(*   src/utils/phoneUtils.ts   phone normalizer (pure functions)          *)
(*   src/unnamed/part_002      device contact reader, directory matcher,  *)
(*                             snapshot cache and sync coordinator        *)
(*                                                                         *)
(* JavaScript strings are modelled as sequences of one-character strings,  *)
(* `undefined`/`null` as the empty sequence None and a present value v as  *)
(* Some(v) = <<v>>.  Every asynchronous operation (a native call that      *)
(* resolves in a later macrotask) is one action: the action applies the    *)
(* operation's effect and runs the continuation of the awaiting code up to *)
(* its next native call, as the single-threaded event loop does.           *)
(***************************************************************************)
EXTENDS Integers, Sequences, FiniteSets, TLC

(***************************************************************************)
(* Generic helpers                                                         *)
(***************************************************************************)
None == <<>>

Some(v) == <<v>>

Range(s) == {s[i] : i \in DOMAIN s}

\* Array.prototype.map
Map(f(_), s) == [i \in DOMAIN s |-> f(s[i])]

\* a startsWith that never matches
StartsWithNever(s, p) == FALSE

\* String.prototype.startsWith
StartsWith(s, p) == Len(s) >= Len(p) /\ SubSeq(s, 1, Len(p)) = p

\* String.prototype.substring(n) (n counted from 0)
Substring(s, n) == SubSeq(s, n + 1, Len(s))

\* String.prototype.includes
Includes(s, q) == \E i \in 0..(Len(s) - Len(q)) : SubSeq(s, i + 1, i + Len(q)) = q

\* String.prototype.toLowerCase, on the letters the model's names use
LowerChar(c) ==
    CASE c = "A" -> "a"
      [] c = "B" -> "b"
      [] c = "L" -> "l"
      [] c = "O" -> "o"
      [] OTHER -> c

ToLowerCase(s) == Map(LowerChar, s)

\* String.prototype.trim: leading and trailing blanks removed
RECURSIVE TrimLeft(_)
TrimLeft(s) == IF s # <<>> /\ Head(s) = " " THEN TrimLeft(Tail(s)) ELSE s

RECURSIVE TrimRight(_)
TrimRight(s) ==
    IF s # <<>> /\ s[Len(s)] = " " THEN TrimRight(SubSeq(s, 1, Len(s) - 1)) ELSE s

Trim(s) == TrimRight(TrimLeft(s))

(***************************************************************************)
(* Phone normalizer (src/utils/phoneUtils.ts)                              *)
(***************************************************************************)
Digits == {"0", "1", "2", "3", "4", "5", "6", "7", "8", "9"}

IsDigit(c) == c \in Digits

\* a cleanPhoneNumber that strips nothing
cleanPhoneNumberKeeps(phone) == phone

\* phone.replace(/\D/g, '')
cleanPhoneNumber(phone) == SelectSeq(phone, IsDigit)

\* the default value of the parameter defaultCountryCode
DefaultCountryCode == <<"9", "7", "3">>

\* the local array commonCodes, in its order of declaration
commonCodes ==
    << <<"9", "7", "3">>, <<"9", "6", "6">>, <<"9", "7", "1">>,
       <<"9", "6", "5">>, <<"9", "6", "8">>, <<"9", "7", "4">>,
       <<"1">>, <<"4", "4">> >>

\* the shortest digit string normalizeToE164 accepts
MinDigits == 7

normalizeToE164(phone, defaultCountryCode) ==
    LET cleaned == cleanPhoneNumber(phone)
        processedNumber ==
            IF StartsWith(cleaned, <<"0", "0">>) THEN Substring(cleaned, 2) ELSE cleaned
    IN  IF cleaned = <<>> \/ Len(cleaned) < MinDigits
        THEN <<>>
        ELSE IF \E i \in DOMAIN commonCodes : StartsWith(processedNumber, commonCodes[i])
        THEN <<"+">> \o processedNumber
        ELSE IF Len(processedNumber) = 8 \/ Len(processedNumber) = 7
        THEN <<"+">> \o defaultCountryCode \o processedNumber
        ELSE IF Len(processedNumber) >= MinDigits
        THEN <<"+">> \o processedNumber
        ELSE <<>>

\* a generatePhoneVariants that yields no variant
generatePhoneVariantsNone(phone) == <<>>

\* new Set([e164, e164.substring(1)]), then Array.from; [] when e164 is ''
generatePhoneVariants(phone) ==
    LET e164 == normalizeToE164(phone, DefaultCountryCode)
    IN  IF e164 = <<>>
        THEN <<>>
        ELSE IF Substring(e164, 1) = e164
        THEN <<e164>>
        ELSE <<e164, Substring(e164, 1)>>

\* variants1.some(v1 => variants2.includes(v1))
arePhoneNumbersEqual(phone1, phone2) ==
    LET variants1 == generatePhoneVariants(phone1)
        variants2 == generatePhoneVariants(phone2)
    IN  \E i \in DOMAIN variants1 : variants1[i] \in Range(variants2)

\* Object.keys(COUNTRY_CODES).sort((a, b) => b.length - a.length): integer
\* keys come in ascending numeric order and the sort is stable
sortedCodes ==
    << <<"9", "6", "5">>, <<"9", "6", "6">>, <<"9", "6", "8">>,
       <<"9", "7", "1">>, <<"9", "7", "3">>, <<"9", "7", "4">>,
       <<"4", "4">>, <<"1">> >>

\* An absent countryCode or nationalNumber is the empty string: the callers
\* only test these fields for truthiness.
normalizePhoneNumber(phone, defaultCountryCode) ==
    LET cleaned0 == cleanPhoneNumber(phone)
        cleaned == IF StartsWith(cleaned0, <<"0", "0">>) THEN Substring(cleaned0, 2) ELSE cleaned0
        found == {i \in DOMAIN sortedCodes : StartsWith(cleaned, sortedCodes[i])}
    IN  IF cleaned0 = <<>> \/ Len(cleaned0) < MinDigits
        THEN [original |-> phone, normalized |-> cleaned0,
              countryCode |-> <<>>, nationalNumber |-> <<>>]
        ELSE IF found # {}
        THEN LET code == sortedCodes[CHOOSE i \in found : \A j \in found : i <= j]
             IN  [original |-> phone, normalized |-> cleaned,
                  countryCode |-> code, nationalNumber |-> Substring(cleaned, Len(code))]
        ELSE IF Len(cleaned) = 8 \/ Len(cleaned) = 7
        THEN [original |-> phone, normalized |-> defaultCountryCode \o cleaned,
              countryCode |-> defaultCountryCode, nationalNumber |-> cleaned]
        ELSE [original |-> phone, normalized |-> cleaned,
              countryCode |-> <<>>, nationalNumber |-> <<>>]

formatPhoneForDisplay(phone) ==
    LET normalized == normalizePhoneNumber(phone, DefaultCountryCode)
        countryCode == normalized.countryCode
        nationalNumber == normalized.nationalNumber
    IN  IF countryCode = <<>> \/ nationalNumber = <<>>
        THEN phone
        ELSE IF countryCode = <<"9", "7", "3">> /\ Len(nationalNumber) = 8
        THEN <<"+", "9", "7", "3", " ">> \o SubSeq(nationalNumber, 1, 4) \o <<" ">>
                 \o Substring(nationalNumber, 4)
        ELSE IF countryCode = <<"9", "6", "6">> /\ Len(nationalNumber) = 9
        THEN <<"+", "9", "6", "6", " ">> \o SubSeq(nationalNumber, 1, 2) \o <<" ">>
                 \o SubSeq(nationalNumber, 3, 5) \o <<" ">> \o Substring(nationalNumber, 5)
        ELSE IF countryCode = <<"1">> /\ Len(nationalNumber) = 10
        THEN <<"+", "1", " ", "(">> \o SubSeq(nationalNumber, 1, 3) \o <<")", " ">>
                 \o SubSeq(nationalNumber, 4, 6) \o <<"-">> \o Substring(nationalNumber, 6)
        ELSE <<"+">> \o countryCode \o <<" ">> \o nationalNumber

(***************************************************************************)
(* The collaborators' data: the device address book and the user directory *)
(***************************************************************************)
\* Raw address-book entries as Contacts.getContactsAsync delivers them; an
\* absent name, firstName or lastName is the empty string.
RawAli ==
    [id |-> "c1", name |-> <<"A", "l", "i">>, firstName |-> <<>>, lastName |-> <<>>,
     phoneNumbers |-> << <<"1", "2", "3", "4", " ", "5", "6", "7", "8">>,
                         <<"+", "9", "7", "3", " ", "9", "9", "9", "9", "9", "9", "9", "9">> >>]

RawBo ==
    [id |-> "c2", name |-> <<>>, firstName |-> <<"B", "o">>, lastName |-> <<>>,
     phoneNumbers |-> << <<"0", "0", "9", "7", "3", "3", "3", "3", "3", "4", "4", "4", "4">> >>]

RawNoPhone ==
    [id |-> "c3", name |-> <<"L", "a">>, firstName |-> <<>>, lastName |-> <<>>,
     phoneNumbers |-> << >>]

RawShort ==
    [id |-> "c4", name |-> <<"O", "l">>, firstName |-> <<>>, lastName |-> <<>>,
     phoneNumbers |-> << <<"1", "2", "3">> >>]

\* an entry with eight local numbers
RawCy ==
    [id |-> "c5", name |-> <<"C", "y">>, firstName |-> <<>>, lastName |-> <<>>,
     phoneNumbers |->
         [k \in 1..8 |-> <<"3", "3", "0", "0", "0", "0", "0">>
                             \o << <<"1", "2", "3", "4", "5", "6", "7", "8">>[k] >>]]

\* The contents the device address book takes in the model: none, a few
\* entries, and entries with eleven numbers between them.
Books ==
    << << >>,
       << RawAli, RawNoPhone, RawBo, RawShort >>,
       << RawAli, RawCy, RawBo >> >>

\* The documents of the 'users' collection, in document order.
Directory ==
    << [uid |-> "u1", username |-> <<"a", "l", "i", "9">>, isOnline |-> TRUE,
        lastSeen |-> Some(100),
        phone |-> <<"+", "9", "7", "3", "9", "9", "9", "9", "9", "9", "9", "9">>],
       [uid |-> "u2", username |-> <<"b", "o">>, isOnline |-> FALSE,
        lastSeen |-> None,
        phone |-> <<"+", "9", "7", "3", "3", "3", "3", "3", "4", "4", "4", "4">>],
       [uid |-> "u3", username |-> <<"c", "y">>, isOnline |-> TRUE,
        lastSeen |-> None,
        phone |-> <<"+", "0", "0", "1", "2", "3", "4", "5", "6", "7", "8", "9">>] >>

(***************************************************************************)
(* Device contact reader: the body of fetchDeviceContacts after the read   *)
(***************************************************************************)
HasPhoneNumbers(contact) == Len(contact.phoneNumbers) > 0

\* normalizeToE164 returns a string ('' on failure), never null, so the
\* test `phone !== null` holds of every element.
NotNull(phone) == TRUE

ToE164(phone) == normalizeToE164(phone, DefaultCountryCode)

ContactName(contact) ==
    IF contact.name # <<>>
    THEN contact.name
    ELSE Trim(contact.firstName \o <<" ">> \o contact.lastName)

ToDeviceContact(contact) ==
    [id |-> contact.id,
     name |-> ContactName(contact),
     phoneNumbers |-> contact.phoneNumbers,
     normalizedPhones |-> SelectSeq(Map(ToE164, contact.phoneNumbers), NotNull)]

HasNormalizedPhones(contact) == Len(contact.normalizedPhones) > 0

ProcessContacts(data) ==
    SelectSeq(Map(ToDeviceContact, SelectSeq(data, HasPhoneNumbers)), HasNormalizedPhones)

(***************************************************************************)
(* Directory matcher: the pieces of findAppUsersByPhones                   *)
(***************************************************************************)
batchSize == 10

Min(a, b) == IF a < b THEN a ELSE b

\* a single query that carries the whole list
BatchesAll(phoneNumbers) == <<phoneNumbers>>

\* for (i = 0; i < length; i += batchSize) batches.push(slice(i, i + batchSize))
Batches(phoneNumbers) ==
    [k \in 1..((Len(phoneNumbers) + batchSize - 1) \div batchSize) |->
        SubSeq(phoneNumbers, (k - 1) * batchSize + 1, Min(k * batchSize, Len(phoneNumbers)))]

\* getDocs(query(collection(db, 'users'), where('phone', 'in', batch)))
QueryDocs(batch) ==
    LET InBatch(d) == d.phone \in Range(batch)
    IN  SelectSeq(Directory, InBatch)

\* userMap[key] = value
Put(userMap, key, value) ==
    [k \in (DOMAIN userMap) \cup {key} |-> IF k = key THEN value ELSE userMap[k]]

\* querySnapshot.forEach(doc => ...)
RECURSIVE AddDocs(_, _)
AddDocs(userMap, docs) ==
    IF docs = <<>>
    THEN userMap
    ELSE LET userData == Head(docs)
             normalizedPhone == ToE164(userData.phone)
         IN  AddDocs(IF userData.phone # <<>> /\ normalizedPhone # <<>>
                     THEN Put(userMap, normalizedPhone, userData)
                     ELSE userMap,
                     Tail(docs))

\* a loop that ends after its first turn
MoreBatchesNever(i, batches) == FALSE

\* for (const batch of batches): a batch follows the i-th
MoreBatches(i, batches) == i < Len(batches)

\* a loop in which a failed query discards the entries found so far
AfterBatchAborts(userMap, batch, queryFails) ==
    IF queryFails THEN <<>> ELSE AddDocs(userMap, QueryDocs(batch))

\* one turn of `for (const batch of batches)`: try { getDocs; forEach } catch
AfterBatch(userMap, batch, queryFails) ==
    IF queryFails THEN userMap ELSE AddDocs(userMap, QueryDocs(batch))

(***************************************************************************)
(* Sync coordinator: pure parts                                            *)
(***************************************************************************)
\* 5 * 60 * 1000 milliseconds
SYNC_INTERVAL == 5 * 60 * 1000

\* Milliseconds between two consecutive values of the model's clock: one
\* staleness window, so that a snapshot is fresh exactly during the tick of its
\* lastSyncTime.
TickMs == SYNC_INTERVAL

\* a check that takes every snapshot for fresh
isCacheValidAlways(cache, now) == TRUE

\* a check that takes every snapshot for stale
isCacheValidNever(cache, now) == FALSE

\* (now - cache.lastSyncTime) < SYNC_INTERVAL, the clock counted in ticks
isCacheValid(cache, now) == (now - cache.lastSyncTime) * TickMs < SYNC_INTERVAL

\* JSON.stringify / JSON.parse of a ContactSyncCache: the stored item is text,
\* which parses back to the fields that were written.
JSONstringify(cache) == <<"json", cache>>

JSONparse(item) == item[2]

\* new Set over all normalizedPhones, then Array.from: first occurrences in order
RECURSIVE Dedup(_, _)
Dedup(seen, s) ==
    IF s = <<>>
    THEN seen
    ELSE Dedup(IF Head(s) \in Range(seen) THEN seen ELSE Append(seen, Head(s)), Tail(s))

RECURSIVE AllNormalizedPhones(_)
AllNormalizedPhones(deviceContacts) ==
    IF deviceContacts = <<>>
    THEN <<>>
    ELSE Head(deviceContacts).normalizedPhones \o AllNormalizedPhones(Tail(deviceContacts))

AllPhones(deviceContacts) == Dedup(<<>>, AllNormalizedPhones(deviceContacts))

\* a merge that links the record of the last matching phone
MergeContactLast(contact, appUsers) ==
    LET IsKnown(phone) == phone \in DOMAIN appUsers
        matches == SelectSeq(contact.normalizedPhones, IsKnown)
        userProfile == IF matches = <<>> THEN None ELSE Some(appUsers[matches[Len(matches)]])
    IN  [id |-> contact.id,
         name |-> contact.name,
         phoneNumbers |-> contact.phoneNumbers,
         normalizedPhones |-> contact.normalizedPhones,
         isAppUser |-> userProfile # None,
         userProfile |-> userProfile,
         isOnline |-> IF userProfile # None THEN Some(userProfile[1].isOnline) ELSE None,
         lastSeen |-> IF userProfile # None /\ userProfile[1].lastSeen # None
                      THEN Some(userProfile[1].lastSeen[1] * 1000)
                      ELSE None]

MergeContact(contact, appUsers) ==
    LET IsKnown(phone) == phone \in DOMAIN appUsers
        matches == SelectSeq(contact.normalizedPhones, IsKnown)
        userProfile == IF matches = <<>> THEN None ELSE Some(appUsers[Head(matches)])
    IN  [id |-> contact.id,
         name |-> contact.name,
         phoneNumbers |-> contact.phoneNumbers,
         normalizedPhones |-> contact.normalizedPhones,
         isAppUser |-> userProfile # None,
         userProfile |-> userProfile,
         isOnline |-> IF userProfile # None THEN Some(userProfile[1].isOnline) ELSE None,
         lastSeen |-> IF userProfile # None /\ userProfile[1].lastSeen # None
                      THEN Some(userProfile[1].lastSeen[1] * 1000)
                      ELSE None]

mergeContactsWithUsers(deviceContacts, appUsers) ==
    [i \in DOMAIN deviceContacts |-> MergeContact(deviceContacts[i], appUsers)]

IsAppUser(contact) == contact.isAppUser

\* the filter of searchContacts
SearchFilter(allContacts, query) ==
    LET lowercaseQuery == ToLowerCase(query)
        Matches(contact) ==
            \/ Includes(ToLowerCase(contact.name), lowercaseQuery)
            \/ /\ contact.userProfile # None
               /\ Includes(ToLowerCase(contact.userProfile[1].username), lowercaseQuery)
            \/ \E i \in DOMAIN contact.phoneNumbers : Includes(contact.phoneNumbers[i], query)
    IN  SelectSeq(allContacts, Matches)

\* the public operations' post-processing of the list syncContacts resolved to
Finish(o, query, allContacts) ==
    CASE o = "getAppUserContacts" -> SelectSeq(allContacts, IsAppUser)
      [] o = "searchContacts" -> SearchFilter(allContacts, query)
      [] OTHER -> allContacts

\* try { status === 'granted' } catch { return false }
requestContactsPermission(status) == status = "granted"

\* try { getItem; JSON.parse } catch { } return null
getCachedContacts(readFails, item) ==
    IF readFails \/ item = None THEN None ELSE Some(JSONparse(item[1]))

\* a setCachedContacts without its catch
setCachedContactsThrows(writeFails) == IF writeFails THEN "rejected" ELSE "fulfilled"

\* try { setItem } catch { log }: how the call settles
setCachedContacts(writeFails) == "fulfilled"

\* a clearContactsCache without its catch
clearContactsCacheRejects(deleteFails) == IF deleteFails THEN "rejected" ELSE "fulfilled"

\* try { removeItem } catch { log }: how the call settles
clearContactsCacheSettles(deleteFails) == "fulfilled"

(***************************************************************************)
(* Bounds of the model                                                     *)
(***************************************************************************)
\* Number of calls of public operations that can be pending together.
NumTasks == 2

\* Number of calls of public operations in one behaviour.
MaxCalls == 3

\* Last value of the clock.
MaxTime == 1

\* Number of calls in one behaviour when every public operation may be called.
MaxCallsAll == 2

Tasks == 1..NumTasks

\* the operations that differ in how they drive the coordinator
CoreOps == {"getContacts", "refreshContacts", "clearContactsCache"}

\* all public operations: getAppUserContacts and searchContacts are
\* getContacts followed by a filter
Ops == CoreOps \cup {"getAppUserContacts", "searchContacts"}

\* the search strings passed to searchContacts
Queries == { <<"A", "L">> }

(***************************************************************************)
(* State.  A call occupies a slot of Tasks from the call to its completion; *)
(* the completion frees the slot and leaves a record of the call in `last`. *)
(***************************************************************************)
VARIABLES
    isSyncing,      \* module variable isSyncing
    syncPromise,    \* module variable syncPromise: 0 (null) or the pass it holds
    storage,        \* AsyncStorage item CACHE_KEY: None or Some(text)
    book,           \* index in Books of the device address book's content
    now,            \* Date.now(), in ticks of TickMs
    calls,          \* number of calls made so far
    pc,             \* each pending call's position
    op,             \* its public operation
    arg,            \* its argument (searchContacts' query)
    cached,         \* local `cached` of syncContacts
    pass,           \* the performSync() run the call started, if any
    waitOn,         \* the pass whose promise the call awaits (0: none)
    cid,            \* history: the call's number, in order of calling
    prev,           \* history: the call that completed just before this one was
                    \*   made, when it completed alone and no call was pending
    afterClear,     \* history: the latest call to complete before the call was a
                    \*   clearContactsCache()
    noSnapshot,     \* history: no snapshot was persisted when the call was made
    refreshing,     \* history, of a getContacts() call: the refreshContacts()
                    \*   passes in flight at the call and still in flight
    sawRefresh,     \* history, of a getContacts() call: a refreshContacts() pass
                    \*   was in flight at the call
    expected,       \* history: the lists that the passes once in `refreshing`
                    \*   resolved to
    promised,       \* history, of a pass: how the calls made during its flight
                    \*   completed before it
    last,           \* history: the calls that completed in the latest completion
    reads,          \* history: number of device reads that delivered contacts
    held,           \* history: the device read (its number) whose contacts the
                    \*   persisted snapshot holds; 0 when none is persisted
    inp,            \* the arguments of the function called on its own
    res             \* what that function has done and returned

progVars == <<pc, op, arg, cached, pass, waitOn>>

histVars == <<cid, prev, afterClear, noSnapshot, refreshing, sawRefresh, expected, promised>>

\* the state of the sync coordinator and of its callers
coordVars ==
    <<isSyncing, syncPromise, storage, book, now, calls, pc, op, arg, cached,
      pass, waitOn, cid, prev, afterClear, noSnapshot, refreshing, sawRefresh, expected,
      promised, last, reads, held>>

\* the state of a function called on its own
pureVars == <<inp, res>>

vars == <<coordVars, pureVars>>

\* The locals of a performSync() run: st is its position; read, queries,
\* setItems and write record what it has done.
NoPass ==
    [st |-> "none", deviceContacts |-> <<>>, batches |-> <<>>, i |-> 0,
     userMap |-> <<>>, cache |-> None, read |-> "none", queries |-> 0,
     setItems |-> 0, write |-> "none", readNo |-> 0]

NoPrev == [op |-> "none", how |-> "none", at |-> 0, read |-> "none", write |-> "none"]

NoCall ==
    [cid |-> 0, op |-> "none", how |-> "none", result |-> <<>>, outcome |-> "none",
     cached |-> None, prev |-> NoPrev, afterClear |-> FALSE, noSnapshot |-> FALSE,
     sawRefresh |-> FALSE, expected |-> {}, promised |-> {}, at |-> 0,
     read |-> "none", queries |-> 0, setItems |-> 0, write |-> "none"]

\* the module after its load: no call made yet
Loaded ==
    /\ isSyncing = FALSE
    /\ syncPromise = 0
    /\ storage = None
    /\ now = 0
    /\ calls = 0
    /\ pc = [t \in Tasks |-> "idle"]
    /\ op = [t \in Tasks |-> "none"]
    /\ arg = [t \in Tasks |-> <<>>]
    /\ cached = [t \in Tasks |-> None]
    /\ pass = [t \in Tasks |-> NoPass]
    /\ waitOn = [t \in Tasks |-> 0]
    /\ cid = [t \in Tasks |-> 0]
    /\ prev = [t \in Tasks |-> NoPrev]
    /\ afterClear = [t \in Tasks |-> FALSE]
    /\ noSnapshot = [t \in Tasks |-> FALSE]
    /\ refreshing = [t \in Tasks |-> {}]
    /\ sawRefresh = [t \in Tasks |-> FALSE]
    /\ expected = [t \in Tasks |-> {}]
    /\ promised = [t \in Tasks |-> {}]
    /\ last = [t \in Tasks |-> NoCall]
    /\ reads = 0
    /\ held = 0

\* The address books under which the interleavings of several calls are
\* explored, and the one whose numbers take more than one directory query.
FewNumbers == (DOMAIN Books) \ {Len(Books)}

ManyNumbers == Len(Books)

Init ==
    /\ Loaded
    /\ book \in FewNumbers
    /\ inp = None
    /\ res = None

InFlight(p) == pass[p].st # "none"

\* a reader that finds the contacts of the full address book in every book
ProcessedFull == [b \in DOMAIN Books |-> ProcessContacts(Books[Len(Books)])]

\* what fetchDeviceContacts makes of each address book, computed once
Processed == [b \in DOMAIN Books |-> ProcessContacts(Books[b])]

Pending(t) == pc[t] # "idle"

\* f with the slots of W set to d
Freed(f, W, d) == [t \in Tasks |-> IF t \in W THEN d ELSE f[t]]

\* The record `last` keeps of call t, which completes by path `how` with
\* `list`, settling as `out`; c is its local `cached`, r its pass's locals and
\* exp the lists the refreshing passes of its time have resolved to.
CallRecord(t, how, list, out, c, r, exp) ==
    [cid |-> cid[t], op |-> op[t], how |-> how, result |-> list, outcome |-> out,
     cached |-> c, prev |-> prev[t], afterClear |-> afterClear[t],
     noSnapshot |-> noSnapshot[t], sawRefresh |-> sawRefresh[t], expected |-> exp,
     promised |-> promised[t],
     at |-> IF r.cache # None THEN r.cache[1].lastSyncTime ELSE now,
     read |-> r.read, queries |-> r.queries, setItems |-> r.setItems, write |-> r.write]

\* The calls of W complete with the records recs: their slots are freed, and
\* the passes of refreshContacts() still in flight note how they completed.
Complete(W, recs, settledPass) ==
    /\ last' = [t \in Tasks |-> IF t \in W THEN recs[t] ELSE NoCall]
    /\ pc' = Freed(pc, W, "idle")
    /\ op' = Freed(op, W, "none")
    /\ arg' = Freed(arg, W, <<>>)
    /\ cached' = Freed(cached, W, None)
    /\ pass' = Freed(pass, W, NoPass)
    /\ waitOn' = Freed(waitOn, W, 0)
    /\ cid' = Freed(cid, W, 0)
    /\ prev' = Freed(prev, W, NoPrev)
    /\ afterClear' = Freed(afterClear, W, FALSE)
    /\ noSnapshot' = Freed(noSnapshot, W, FALSE)
    /\ sawRefresh' = Freed(sawRefresh, W, FALSE)
    /\ refreshing' = [t \in Tasks |-> IF t \in W THEN {} ELSE refreshing[t] \ settledPass]
    /\ expected' = [t \in Tasks |->
                      IF t \in W THEN {}
                      ELSE expected[t] \cup
                           {recs[p].result : p \in settledPass \cap refreshing[t]}]
    /\ promised' = [a \in Tasks |->
                      IF a \in W THEN {}
                      ELSE promised[a] \cup
                           {[how |-> recs[t].how, result |-> recs[t].result] :
                              t \in {u \in W : a \in refreshing[u]}}]

(***************************************************************************)
(* syncContacts                                                            *)
(***************************************************************************)
\* isSyncing = true; syncPromise = performSync(); await syncPromise.
\* performSync runs synchronously up to Contacts.requestPermissionsAsync().
StartPass(t) ==
    /\ isSyncing' = TRUE
    /\ syncPromise' = t
    /\ pass' = [pass EXCEPT ![t].st = "permission"]
    /\ pc' = [pc EXCEPT ![t] = "awaitPass"]
    /\ waitOn' = [waitOn EXCEPT ![t] = t]

\* a coordinator that never releases the latch
ResetSyncingNever == UNCHANGED <<isSyncing, syncPromise>>

\* a coordinator that clears the flag and keeps the promise
ResetSyncingFlagOnly ==
    /\ isSyncing' = FALSE
    /\ UNCHANGED syncPromise

\* isSyncing = false; syncPromise = null (after the await, and in the catch)
ResetSyncing ==
    /\ isSyncing' = FALSE
    /\ syncPromise' = 0

\* The promise of pass p settles: the awaiting continuations run in one drain of
\* the microtask queue, the owner's first.  r is the pass's final locals,
\* `threw` whether performSync rejected, `value` the list it resolved to.
Settle(p, r, threw, value) ==
    LET W == {t \in Tasks : pc[t] \in {"awaitPass", "attached"} /\ waitOn[t] = p}
        list == IF threw THEN <<>> ELSE value
        recs == [t \in W |->
                   CallRecord(t, IF t = p THEN "pass" ELSE "attached",
                              Finish(op[t], arg[t], list), "fulfilled", cached[t],
                              IF t = p THEN r ELSE NoPass,
                              expected[t] \cup (IF p \in refreshing[t] THEN {list} ELSE {}))]
    IN  /\ ResetSyncing
        /\ Complete(W, recs, IF op[p] = "refreshContacts" THEN {p} ELSE {})

\* A public operation is called, in the lowest free slot: the code up to its
\* first native call.
Invoke(t, o, query) ==
    /\ ~Pending(t)
    /\ \A u \in Tasks : u < t => Pending(u)
    /\ calls' = calls + 1
    /\ cid' = [cid EXCEPT ![t] = calls + 1]
    /\ op' = [op EXCEPT ![t] = o]
    /\ arg' = [arg EXCEPT ![t] = query]
    /\ prev' = [prev EXCEPT ![t] =
                  LET D == {u \in Tasks : last[u].op # "none"}
                  IN  IF (\E u \in Tasks : Pending(u)) \/ Cardinality(D) # 1
                      THEN NoPrev
                      ELSE LET l == last[CHOOSE u \in D : TRUE]
                           IN  [op |-> l.op, how |-> l.how, at |-> l.at,
                                read |-> l.read, write |-> l.write]]
    /\ afterClear' = [afterClear EXCEPT ![t] =
                        \E u \in Tasks : last[u].op = "clearContactsCache"]
    /\ noSnapshot' = [noSnapshot EXCEPT ![t] = storage = None]
    /\ LET R == IF o = "getContacts"
                THEN {u \in Tasks : op[u] = "refreshContacts" /\ InFlight(u)}
                ELSE {}
       IN  /\ refreshing' = [refreshing EXCEPT ![t] = R]
           /\ sawRefresh' = [sawRefresh EXCEPT ![t] = R # {}]
    /\ IF o = "clearContactsCache"
       THEN \* AsyncStorage.removeItem issued
            /\ pc' = [pc EXCEPT ![t] = "removeItem"]
            /\ UNCHANGED <<isSyncing, syncPromise, pass, waitOn>>
       ELSE IF isSyncing /\ syncPromise # 0
       THEN \* return await syncPromise
            /\ pc' = [pc EXCEPT ![t] = "attached"]
            /\ waitOn' = [waitOn EXCEPT ![t] = syncPromise]
            /\ UNCHANGED <<isSyncing, syncPromise, pass>>
       ELSE IF o = "refreshContacts"
       THEN StartPass(t)
       ELSE \* AsyncStorage.getItem issued
            /\ pc' = [pc EXCEPT ![t] = "getItem"]
            /\ UNCHANGED <<isSyncing, syncPromise, pass, waitOn>>
    /\ UNCHANGED <<storage, book, pureVars, reads, held, now, cached, expected, promised, last>>

\* AsyncStorage.getItem settles: getCachedContacts returns, then the cache check.
CacheRead(t) ==
    /\ pc[t] = "getItem"
    /\ \E readFails \in BOOLEAN :
         LET c == getCachedContacts(readFails, storage)
         IN  IF c # None /\ isCacheValid(c[1], now)
             THEN /\ Complete({t},
                       [u \in {t} |->
                          CallRecord(t, "hit",
                              Finish(op[t], arg[t],
                                     mergeContactsWithUsers(c[1].contacts, c[1].appUsers)),
                              "fulfilled", c, NoPass, expected[t])],
                       {})
                  /\ UNCHANGED <<isSyncing, syncPromise>>
             ELSE /\ StartPass(t)
                  /\ cached' = [cached EXCEPT ![t] = c]
                  /\ UNCHANGED <<op, arg, histVars, last>>
    /\ UNCHANGED <<storage, book, pureVars, reads, held, now, calls>>

(***************************************************************************)
(* performSync                                                             *)
(***************************************************************************)
\* a performSync without the early return
NoDeviceContactsNever(deviceContacts) == FALSE

\* if (deviceContacts.length === 0) return [];
NoDeviceContacts(deviceContacts) == Len(deviceContacts) = 0

\* Contacts.requestPermissionsAsync settles.
PermissionSettled(p) ==
    /\ pass[p].st = "permission"
    /\ \E status \in {"granted", "denied", "error"} :
         IF requestContactsPermission(status)
         THEN \* Contacts.getContactsAsync issued
              /\ pass' = [pass EXCEPT ![p].st = "getContacts"]
              /\ UNCHANGED <<isSyncing, syncPromise, pc, op, arg, cached, waitOn,
                             histVars, last>>
         ELSE Settle(p, pass[p], FALSE, <<>>)
    /\ UNCHANGED <<storage, book, pureVars, reads, held, now, calls>>

\* Contacts.getContactsAsync settles: the rest of fetchDeviceContacts, then
\* performSync up to the first directory query (or to setItem when there is none).
ContactsRead(p) ==
    /\ pass[p].st = "getContacts"
    /\ \E readFails \in BOOLEAN :
         LET deviceContacts == IF readFails THEN <<>> ELSE Processed[book]
             phoneNumbers == AllPhones(deviceContacts)
             read == IF Len(deviceContacts) = 0 THEN "empty" ELSE "some"
         IN  IF NoDeviceContacts(deviceContacts)
             THEN /\ Settle(p, [pass[p] EXCEPT !.read = read], FALSE, <<>>)
                  /\ reads' = reads
             ELSE /\ reads' = reads + 1
                  /\ pass' = [pass EXCEPT ![p] =
                        IF Len(phoneNumbers) = 0
                        THEN [@ EXCEPT !.st = "setItem",
                                       !.read = read,
                                       !.readNo = reads + 1,
                                       !.deviceContacts = deviceContacts,
                                       !.cache = Some([lastSyncTime |-> now,
                                                       contacts |-> deviceContacts,
                                                       appUsers |-> <<>>]),
                                       !.setItems = @ + 1]
                        ELSE [@ EXCEPT !.st = "getDocs",
                                       !.read = read,
                                       !.readNo = reads + 1,
                                       !.deviceContacts = deviceContacts,
                                       !.batches = Batches(phoneNumbers),
                                       !.i = 1,
                                       !.queries = @ + 1]]
                  /\ UNCHANGED <<isSyncing, syncPromise, pc, op, arg, cached, waitOn,
                                 histVars, last>>
    /\ UNCHANGED <<storage, book, pureVars, held, now, calls>>

\* getDocs of the current batch settles: next batch, or the snapshot is built
\* (lastSyncTime: Date.now()) and AsyncStorage.setItem issued.
BatchSettled(p) ==
    /\ pass[p].st = "getDocs"
    /\ \E queryFails \in BOOLEAN :
         LET r == pass[p]
             userMap == AfterBatch(r.userMap, r.batches[r.i], queryFails)
         IN  pass' = [pass EXCEPT ![p] =
                 IF MoreBatches(r.i, r.batches)
                 THEN [@ EXCEPT !.userMap = userMap, !.i = @ + 1, !.queries = @ + 1]
                 ELSE [@ EXCEPT !.st = "setItem",
                                !.userMap = userMap,
                                !.cache = Some([lastSyncTime |-> now,
                                                contacts |-> r.deviceContacts,
                                                appUsers |-> userMap]),
                                !.setItems = @ + 1]]
    /\ UNCHANGED <<isSyncing, syncPromise, storage, book, pureVars, reads, held, now, calls, pc, op, arg,
                   cached, waitOn, histVars, last>>

\* AsyncStorage.setItem(CACHE_KEY, text): the item after the call
SetItem(writeFails, item, text) == IF writeFails THEN item ELSE Some(text)

\* AsyncStorage.setItem settles: performSync returns the merged list.
SnapshotWritten(p) ==
    /\ pass[p].st = "setItem"
    /\ \E writeFails \in BOOLEAN :
         LET r == pass[p]
         IN  /\ storage' = SetItem(writeFails, storage, JSONstringify(r.cache[1]))
             /\ held' = IF writeFails THEN held ELSE r.readNo
             /\ Settle(p, [r EXCEPT !.write = IF writeFails THEN "failed" ELSE "ok"],
                       setCachedContacts(writeFails) = "rejected",
                       mergeContactsWithUsers(r.deviceContacts, r.userMap))
    /\ UNCHANGED <<book, pureVars, reads, now, calls>>

(***************************************************************************)
(* clearContactsCache                                                      *)
(***************************************************************************)
\* a removeItem that leaves the item
RemoveItemKeeps(deleteFails, item) == item

\* AsyncStorage.removeItem(CACHE_KEY): the item after the call
RemoveItem(deleteFails, item) == IF deleteFails THEN item ELSE None

\* a clearContactsCache that also releases the latch
ClearResetsLatch ==
    /\ isSyncing' = FALSE
    /\ syncPromise' = 0

\* clearContactsCache assigns neither isSyncing nor syncPromise
ClearKeepsLatch == UNCHANGED <<isSyncing, syncPromise>>

\* AsyncStorage.removeItem settles.
CacheCleared(t) ==
    /\ pc[t] = "removeItem"
    /\ \E deleteFails \in BOOLEAN :
         /\ storage' = RemoveItem(deleteFails, storage)
         /\ held' = IF RemoveItem(deleteFails, storage) = None THEN 0 ELSE held
         /\ Complete({t},
               [u \in {t} |->
                  CallRecord(t, IF deleteFails THEN "failed" ELSE "deleted", <<>>,
                             clearContactsCacheSettles(deleteFails), None, NoPass, {})],
               {})
    /\ ClearKeepsLatch
    /\ UNCHANGED <<book, pureVars, reads, now, calls>>

(***************************************************************************)
(* Environment                                                             *)
(***************************************************************************)
Tick ==
    /\ now < MaxTime
    /\ now' = now + 1
    /\ UNCHANGED <<isSyncing, syncPromise, storage, book, pureVars, reads, held, calls, progVars,
                   histVars, last>>

\* a call of one of the core operations
Call(t) ==
    /\ calls < MaxCalls
    /\ \E o \in CoreOps : Invoke(t, o, <<>>)

\* a call of any public operation
CallAny(t) ==
    /\ calls < MaxCallsAll
    /\ \E o \in Ops : \E query \in (IF o = "searchContacts" THEN Queries ELSE {<<>>}) :
          Invoke(t, o, query)

Next ==
    \/ \E t \in Tasks : Call(t)
    \/ \E t \in Tasks : CacheRead(t)
    \/ \E t \in Tasks : PermissionSettled(t)
    \/ \E t \in Tasks : ContactsRead(t)
    \/ \E t \in Tasks : BatchSettled(t)
    \/ \E t \in Tasks : SnapshotWritten(t)
    \/ \E t \in Tasks : CacheCleared(t)
    \/ Tick

Spec == Init /\ [][Next]_vars

\* The same program when every public operation may be called.
NextAll ==
    \/ \E t \in Tasks : CallAny(t)
    \/ \E t \in Tasks : CacheRead(t)
    \/ \E t \in Tasks : PermissionSettled(t)
    \/ \E t \in Tasks : ContactsRead(t)
    \/ \E t \in Tasks : BatchSettled(t)
    \/ \E t \in Tasks : SnapshotWritten(t)
    \/ \E t \in Tasks : CacheCleared(t)
    \/ Tick

SpecAll == Init /\ [][NextAll]_vars

\* The same program on the address book with many numbers.
InitMany ==
    /\ Loaded
    /\ book = ManyNumbers
    /\ inp = None
    /\ res = None

ManySpec == InitMany /\ [][NextAll]_vars

\* A native call that has been issued settles.
Settlement ==
    \E t \in Tasks :
        \/ CacheRead(t)
        \/ PermissionSettled(t)
        \/ ContactsRead(t)
        \/ BatchSettled(t)
        \/ SnapshotWritten(t)
        \/ CacheCleared(t)

\* The native calls are fairly scheduled: while one is outstanding, one
\* eventually settles.
Fairness == WF_vars(Settlement)

FairSpec == SpecAll /\ Fairness

(***************************************************************************)
(* The phone normalizer called on its own                                  *)
(***************************************************************************)
\* Number of digits of the longest national part of an input.
MaxLocal == 10

\* the ways an input writes the international prefix
Prefixes == { <<>>, <<"+">>, <<"0", "0">>, <<"0", "0", "0", "0">> }

\* the digits that follow the prefix: a calling code of the table, or none
LeadingDigits == { <<>>, <<"9", "7", "3">>, <<"9", "6", "6">>, <<"1">>, <<"4", "4">>, <<"2">> }

\* the first n digits of the national part 2345678923456789...
LocalPart(n) == [i \in 1..n |-> <<"2", "3", "4", "5", "6", "7", "8", "9">>[((i - 1) % 8) + 1]]

\* s with a blank after every fourth character
RECURSIVE Grouped(_)
Grouped(s) ==
    IF Len(s) <= 4 THEN s ELSE SubSeq(s, 1, 4) \o <<" ">> \o Grouped(SubSeq(s, 5, Len(s)))

\* s between blanks, its digits separated by dashes
RECURSIVE Dashed(_)
Dashed(s) == IF s = <<>> THEN <<" ">> ELSE <<" ", Head(s)>> \o Dashed(Tail(s))

\* the phone strings given to the normalizer
PhoneInputs ==
    UNION { {p \o c \o LocalPart(n), Grouped(p \o c \o LocalPart(n)),
             Dashed(p \o c \o LocalPart(n))} :
            <<p, c, n>> \in Prefixes \X LeadingDigits \X (0..MaxLocal) }

\* the second argument of arePhoneNumbersEqual
OtherPhones ==
    { <<>>,
      <<"2", "3", "4", "5", "6", "7", "8", "9">>,
      <<"0", "0", "9", "7", "3", "2", "3", "4", "5", "6", "7", "8", "9">>,
      <<"+", "1", " ", "2", "3", "4", "5", "6", "7", "8">> }

\* the values given for defaultCountryCode
CountryCodes == { <<"9", "7", "3">>, <<"9", "6", "6">> }

NoResult ==
    [fn |-> "none", cc |-> <<>>, e164 |-> <<>>, again |-> <<>>, plus |-> <<>>,
     zeros |-> <<>>, eqAA |-> FALSE, eqAB |-> FALSE, eqBA |-> FALSE, display |-> <<>>]

InitNormalizer ==
    /\ Loaded
    /\ book = 1
    /\ inp \in [a : PhoneInputs, b : OtherPhones]
    /\ res = NoResult

\* normalizeToE164(a, cc)
Normalize ==
    /\ res.fn = "none"
    /\ \E cc \in CountryCodes :
         res' = [res EXCEPT !.fn = "normalizeToE164", !.cc = cc,
                            !.e164 = normalizeToE164(inp.a, cc)]
    /\ UNCHANGED <<coordVars, inp>>

\* normalizeToE164(normalizeToE164(a, cc), cc)
Renormalize ==
    /\ res.fn = "normalizeToE164"
    /\ res' = [res EXCEPT !.fn = "twice", !.again = normalizeToE164(res.e164, res.cc)]
    /\ UNCHANGED <<coordVars, inp>>

\* normalizeToE164 of a, of "+" + a and of "00" + a
NormalizeForms ==
    /\ res.fn = "none"
    /\ res' = [res EXCEPT !.fn = "forms",
                          !.e164 = ToE164(inp.a),
                          !.plus = ToE164(<<"+">> \o inp.a),
                          !.zeros = ToE164(<<"0", "0">> \o inp.a)]
    /\ UNCHANGED <<coordVars, inp>>

\* arePhoneNumbersEqual(a, a), (a, b) and (b, a)
ComparePhones ==
    /\ res.fn = "none"
    /\ res' = [res EXCEPT !.fn = "arePhoneNumbersEqual",
                          !.eqAA = arePhoneNumbersEqual(inp.a, inp.a),
                          !.eqAB = arePhoneNumbersEqual(inp.a, inp.b),
                          !.eqBA = arePhoneNumbersEqual(inp.b, inp.a)]
    /\ UNCHANGED <<coordVars, inp>>

\* formatPhoneForDisplay(a)
FormatForDisplay ==
    /\ res.fn = "none"
    /\ res' = [res EXCEPT !.fn = "formatPhoneForDisplay",
                          !.display = formatPhoneForDisplay(inp.a)]
    /\ UNCHANGED <<coordVars, inp>>

NextNormalizer ==
    \/ Normalize
    \/ Renormalize
    \/ NormalizeForms
    \/ ComparePhones
    \/ FormatForDisplay

NormalizerSpec == InitNormalizer /\ [][NextNormalizer]_vars

(***************************************************************************)
(* findAppUsersByPhones called on its own                                  *)
(***************************************************************************)
\* The longest list of phone numbers handed to findAppUsersByPhones.
MaxPhones == 21

DigitChars == <<"0", "1", "2", "3", "4", "5", "6", "7", "8", "9">>

TwoDigits(k) == <<DigitChars[(k \div 10) + 1], DigitChars[(k % 10) + 1]>>

\* The k-th phone number as the address book holds it: the numbers of the
\* directory's users at places 1, 11 and 21, local numbers elsewhere.
PoolRaw(k) ==
    IF k = 1 THEN <<"+", "9", "7", "3", " ", "9", "9", "9", "9", "9", "9", "9", "9">>
    ELSE IF k = 11 THEN <<"0", "0", "9", "7", "3", "3", "3", "3", "3", "4", "4", "4", "4">>
    ELSE IF k = 21 THEN <<"0", "0", "0", "0", "1", "2", "3", "4", "5", "6", "7", "8", "9">>
    ELSE <<"3", "3">> \o TwoDigits(k) \o <<"0", "0", "0", "0">>

\* What normalizeToE164 makes of it: the values performSync collects.
Pool == [k \in 1..MaxPhones |-> ToE164(PoolRaw(k))]

Reverse(s) == [i \in 1..Len(s) |-> s[Len(s) + 1 - i]]

\* a list whose last element repeats its first
RepeatFirst(s) == IF Len(s) < 2 THEN s ELSE [s EXCEPT ![Len(s)] = s[1]]

PhoneLists ==
    UNION {{SubSeq(Pool, 1, n), Reverse(SubSeq(Pool, 1, n)), RepeatFirst(SubSeq(Pool, 1, n))} :
           n \in 0..MaxPhones}

NotCalled ==
    [st |-> "new", batches |-> <<>>, i |-> 0, userMap |-> <<>>,
     asked |-> <<>>, failed |-> {}, value |-> None]

InitMatcher ==
    /\ Loaded
    /\ book = 1
    /\ inp \in [phoneNumbers : PhoneLists]
    /\ res = NotCalled

\* The call up to its first await: {} for an empty list, else the batches
\* are cut and getDocs is issued for the first.
findAppUsersByPhones ==
    /\ res.st = "new"
    /\ LET phoneNumbers == inp.phoneNumbers
           batches == Batches(phoneNumbers)
       IN  res' = IF Len(phoneNumbers) = 0
                  THEN [res EXCEPT !.st = "returned", !.value = Some(<<>>)]
                  ELSE [res EXCEPT !.st = "getDocs",
                                   !.batches = batches,
                                   !.i = 1,
                                   !.asked = <<batches[1]>>]
    /\ UNCHANGED <<coordVars, inp>>

\* getDocs of the current batch settles (resolved or rejected): the next
\* query is issued, or userMap is returned.
GetDocsSettled ==
    /\ res.st = "getDocs"
    /\ \E queryFails \in BOOLEAN :
         LET userMap == AfterBatch(res.userMap, res.batches[res.i], queryFails)
             failed == IF queryFails THEN res.failed \cup {res.i} ELSE res.failed
         IN  res' = IF MoreBatches(res.i, res.batches)
                    THEN [res EXCEPT !.userMap = userMap,
                                     !.failed = failed,
                                     !.i = @ + 1,
                                     !.asked = Append(@, res.batches[res.i + 1])]
                    ELSE [res EXCEPT !.st = "returned",
                                     !.userMap = userMap,
                                     !.failed = failed,
                                     !.value = Some(userMap)]
    /\ UNCHANGED <<coordVars, inp>>

NextMatcher ==
    \/ findAppUsersByPhones
    \/ GetDocsSettled

MatcherSpec == InitMatcher /\ [][NextMatcher]_vars

(***************************************************************************)
(* mergeContactsWithUsers called on its own                                *)
(***************************************************************************)
\* The most normalized phones a contact has.
MaxNormalized == 3

\* The values of normalizedPhones: three canonical numbers and the ''
\* that normalizeToE164 returns for a number it rejects.
MergePhones ==
    { <<>>,
      <<"+", "9", "7", "3", "1", "2", "3", "4", "5", "6", "7", "8">>,
      <<"+", "9", "7", "3", "9", "9", "9", "9", "9", "9", "9", "9">>,
      <<"+", "9", "7", "3", "3", "3", "3", "3", "4", "4", "4", "4">> }

PhoneSeqs == UNION {[1..n -> MergePhones] : n \in 1..MaxNormalized}

MergeContacts ==
    {[id |-> "c1", name |-> <<"A", "l", "i">>, phoneNumbers |-> normalizedPhones,
      normalizedPhones |-> normalizedPhones] : normalizedPhones \in PhoneSeqs}

\* The mappings findAppUsersByPhones can hand over: canonical numbers as
\* keys, documents of the directory as values.
UserMaps ==
    UNION {[keys -> Range(Directory)] : keys \in SUBSET (MergePhones \ {<<>>})}

NotMerged == [st |-> "new", merged |-> <<>>]

InitMerge ==
    /\ Loaded
    /\ book = 1
    /\ inp \in [deviceContacts : {<<c>> : c \in MergeContacts}, appUsers : UserMaps]
    /\ res = NotMerged

Merge ==
    /\ res.st = "new"
    /\ res' = [st |-> "merged",
               merged |-> mergeContactsWithUsers(inp.deviceContacts, inp.appUsers)]
    /\ UNCHANGED <<coordVars, inp>>

NextMerge == Merge

MergeSpec == InitMerge /\ [][NextMerge]_vars

(***************************************************************************)
(* debouncedSearchUsers (src/services/userSearch.ts)                       *)
(***************************************************************************)
\* Number of debouncedSearchUsers calls in one behaviour.
MaxSearches == 4

\* the search strings typed
SearchQueries == { <<"a">>, <<"a", "l">> }

\* No call made: searchTimeout is null, no timer is set, no search runs and
\* the callback has not been invoked.
NoSearch ==
    [searchTimeout |-> 0, timers |-> {}, running |-> {}, delivered |-> <<>>, made |-> 0]

InitDebounce ==
    /\ Loaded
    /\ book = 1
    /\ inp = None
    /\ res = NoSearch

\* clearTimeout(id): the timer, if still set, will not fire
clearTimeout(timers, id) == {t \in timers : t.id # id}

\* debouncedSearchUsers(searchQuery, callback): the earlier timer is cleared
\* and a new one set; timers are numbered in the order of the calls.
debouncedSearchUsers ==
    /\ res.made < MaxSearches
    /\ \E searchQuery \in SearchQueries :
         LET id == res.made + 1
             timers == IF res.searchTimeout # 0
                       THEN clearTimeout(res.timers, res.searchTimeout)
                       ELSE res.timers
         IN  res' = [res EXCEPT !.made = id,
                                !.searchTimeout = id,
                                !.timers = timers \cup {[id |-> id, searchQuery |-> searchQuery]}]
    /\ UNCHANGED <<coordVars, inp>>

\* searchUsers returns [] without a query when query.trim().length < 2
TooShort(searchQuery) == Len(Trim(searchQuery)) < 2

\* The delay has passed: the timer's function calls searchUsers, which either
\* resolves at once (callback([]) in the same turn) or issues its first query.
TimerFires ==
    /\ \E t \in res.timers :
         res' = IF TooShort(t.searchQuery)
                THEN [res EXCEPT !.timers = @ \ {t}, !.delivered = Append(@, t)]
                ELSE [res EXCEPT !.timers = @ \ {t}, !.running = @ \cup {t}]
    /\ UNCHANGED <<coordVars, inp>>

\* The last query of searchUsers settles and it resolves (it catches its own
\* errors): callback(results).
SearchSettled ==
    /\ \E t \in res.running :
         res' = [res EXCEPT !.running = @ \ {t}, !.delivered = Append(@, t)]
    /\ UNCHANGED <<coordVars, inp>>

NextDebounce ==
    \/ debouncedSearchUsers
    \/ TimerFires
    \/ SearchSettled

DebounceSpec == InitDebounce /\ [][NextDebounce]_vars

(***************************************************************************)
(* Claims                                                                  *)
(***************************************************************************)
\* C1: at most one performSync pass is in progress at any moment, however the
\* callers of syncContacts interleave at their await points.
C1_SingleFlight == Cardinality({p \in Tasks : InFlight(p)}) <= 1

\* C2: a getContacts() call made while a refreshContacts() pass is in flight
\* starts no pass of its own, serves no list built from the persisted snapshot
\* and returns exactly the list that pass resolves to, whatever the other calls.
C2_ObservesRefresh ==
    \A t \in Tasks :
        /\ (last[t].op = "getContacts" /\ last[t].sawRefresh) =>
              /\ last[t].how = "attached"
              /\ \A list \in last[t].expected : last[t].result = list
        /\ (last[t].op = "refreshContacts" /\ last[t].how = "pass") =>
              \A b \in last[t].promised :
                  b.how = "attached" /\ b.result = last[t].result

\* C3: when no snapshot is persisted and refreshContacts() and getContacts()
\* are pending together, in whichever order they were called, they do not each
\* run a pass (fetchDeviceContacts and findAppUsersByPhones run once).
C3_OnePassForBoth ==
    \A a, b \in Tasks :
        (/\ op[a] = "refreshContacts" /\ noSnapshot[a]
         /\ op[b] = "getContacts" /\ noSnapshot[b])
        => ~(InFlight(a) /\ InFlight(b))

\* C4: under fair scheduling of the native calls, every pass in flight is
\* eventually followed by a state with isSyncing = false and syncPromise = null.
C4_LatchReleased ==
    (\E p \in Tasks : InFlight(p)) ~> (~isSyncing /\ syncPromise = 0)

\* a pass has settled and the latch is released
C4_Witness ==
    \E t \in Tasks : last[t].how = "pass" /\ ~isSyncing /\ syncPromise = 0


\* C5: a syncContacts(false) call that found no pass in flight and reads a
\* persisted snapshot younger than SYNC_INTERVAL returns
\* mergeContactsWithUsers(snapshot.contacts, snapshot.appUsers), starts no pass
\* (no device read, no directory query, no snapshot write) and leaves
\* isSyncing and syncPromise unchanged; it starts a pass only when the read
\* gave no snapshot or one at least SYNC_INTERVAL old.
C5_CacheHit ==
    [][\A t \in Tasks :
          (pc[t] = "getItem" /\ pc'[t] # "getItem") =>
              IF pc'[t] = "idle"
              THEN /\ last'[t].how = "hit"
                   /\ storage # None
                   /\ last'[t].cached = Some(JSONparse(storage[1]))
                   /\ (now - last'[t].cached[1].lastSyncTime) * TickMs < 5 * 60 * 1000
                   /\ op[t] = "getContacts" =>
                         last'[t].result =
                             mergeContactsWithUsers(last'[t].cached[1].contacts,
                                                    last'[t].cached[1].appUsers)
                   /\ last'[t].setItems = 0 /\ last'[t].queries = 0
                   /\ last'[t].read = "none"
                   /\ UNCHANGED <<isSyncing, syncPromise, storage, waitOn>>
                   /\ \A u \in Tasks \ {t} : pass'[u] = pass[u]
                   /\ pass[t] = NoPass
              ELSE /\ pc'[t] = "awaitPass"
                   /\ \/ cached'[t] = None
                      \/ (now - cached'[t][1].lastSyncTime) * TickMs >= 5 * 60 * 1000
      ]_vars

\* a call has been served from a fresh snapshot
C5_Witness == \E t \in Tasks : last[t].how = "hit" /\ last[t].op = "getContacts"


C8_NoRejection ==
    \A t \in Tasks :
        last[t].op # "none" =>
            /\ last[t].outcome = "fulfilled"
            /\ DOMAIN last[t].result = 1..Len(last[t].result)

\* searchContacts() settled after a pass whose snapshot write failed
C8_Witness ==
    \E t \in Tasks :
        /\ last[t].op = "searchContacts" /\ last[t].how = "pass"
        /\ last[t].write = "failed" /\ last[t].outcome = "fulfilled"

\* C9 (as claimed): the getContacts() call that follows a pass whose snapshot
\* write failed runs a new pass.
C9_Original ==
    \A t \in Tasks :
        (/\ last[t].op = "getContacts" /\ last[t].cid = calls
         /\ last[t].prev.how = "pass" /\ last[t].prev.write = "failed")
        => last[t].how = "pass"

\* C9 (amended): a pass whose snapshot write fails still resolves to the list
\* merged from its own device read and directory result, and leaves the
\* persisted item as it was; the getContacts() call that follows it runs a new
\* pass unless a snapshot persisted earlier is still younger than SYNC_INTERVAL.
C9_WriteFailure ==
    [][/\ \A p \in Tasks :
            (pass[p].st = "setItem" /\ pass'[p].st = "none"
             /\ last'[p].write = "failed")
            => /\ last'[p].outcome = "fulfilled"
               /\ last'[p].result =
                      mergeContactsWithUsers(pass[p].deviceContacts, pass[p].userMap)
               /\ Len(last'[p].result) > 0
               /\ storage' = storage
       /\ \A t \in Tasks :
            (/\ Pending(t) /\ pc'[t] = "idle"
             /\ op[t] = "getContacts" /\ cid[t] = calls
             /\ prev[t].how = "pass" /\ prev[t].write = "failed"
             /\ last'[t].how # "pass")
            => /\ last'[t].how = "hit"
               /\ ~noSnapshot[t]
               /\ (now - last'[t].cached[1].lastSyncTime) * TickMs < SYNC_INTERVAL
      ]_vars

\* a pass whose snapshot write failed has resolved
C9_Witness ==
    \E t \in Tasks :
        /\ last[t].op = "refreshContacts" /\ last[t].how = "pass"
        /\ last[t].write = "failed" /\ Len(last[t].result) > 0

\* C10 (as claimed): every pass that runs to completion has written the
\* snapshot exactly once.
C10_Original ==
    \A t \in Tasks : last[t].how = "pass" => last[t].setItems = 1

\* C10 (amended): a pass that read at least one contact issues exactly one
\* setItem, of the whole object (lastSyncTime, contacts and appUsers together),
\* which is what the item holds when the write succeeds; a pass that read no
\* contact, or was denied the permission, completes without a write.
C10_OneWholeWrite ==
    [][\A p \in Tasks :
          (InFlight(p) /\ pass'[p].st = "none") =>
              /\ last'[p].how = "pass"
              /\ last'[p].read = "some" =>
                    /\ last'[p].setItems = 1
                    /\ pass[p].st = "setItem"
                    /\ DOMAIN pass[p].cache[1] = {"lastSyncTime", "contacts", "appUsers"}
                    /\ pass[p].cache[1].contacts = pass[p].deviceContacts
                    /\ pass[p].cache[1].appUsers = pass[p].userMap
                    /\ last'[p].write = "ok" =>
                          /\ storage' # None
                          /\ JSONparse(storage'[1]) = pass[p].cache[1]
                    /\ last'[p].write # "ok" => storage' = storage
              /\ last'[p].read # "some" =>
                    /\ last'[p].setItems = 0
                    /\ last'[p].result = <<>>
                    /\ storage' = storage
      ]_vars

\* a pass that read contacts has completed with its one write
C10_Witness ==
    \E t \in Tasks :
        /\ last[t].how = "pass" /\ last[t].read = "some"
        /\ last[t].setItems = 1 /\ last[t].write = "ok"


\* C11: an input with fewer than 7 digits once its non-digits are removed
\* (the empty and the blank string included) normalizes to the empty string.
C11_ShortIsEmpty ==
    (/\ res.fn = "normalizeToE164"
     /\ Cardinality({i \in DOMAIN inp.a : inp.a[i] \in Digits}) < 7)
    => res.e164 = <<>>

\* a blank-separated input of six digits was normalized
C11_Witness ==
    /\ res.fn = "normalizeToE164"
    /\ Cardinality({i \in DOMAIN inp.a : inp.a[i] \in Digits}) = 6
    /\ Len(inp.a) > 7
    /\ res.e164 = <<>>

\* C12: an input of 8 digits and separators, with default country code 973,
\* normalizes to "+973" followed by the 8 digits.
C12_LocalEightDigits ==
    LET d == SelectSeq(inp.a, IsDigit)
    IN  (/\ res.fn = "normalizeToE164"
         /\ res.cc = <<"9", "7", "3">>
         /\ \A i \in DOMAIN inp.a : inp.a[i] \in Digits \cup {" "}
         /\ Len(d) = 8
         /\ d[1] # "0")
        => res.e164 = <<"+", "9", "7", "3">> \o d

\* C13: for digits d that begin with a calling code of the table and number at
\* least 7, whatever blanks separate them, normalizeToE164 gives "+" + d for
\* d, for "+" + d and for "00" + d.
C13_PrefixForms ==
    LET d == SelectSeq(inp.a, IsDigit)
    IN  (/\ res.fn = "forms"
         /\ \A i \in DOMAIN inp.a : inp.a[i] \in Digits \cup {" "}
         /\ Len(d) >= 7
         /\ \E c \in { <<"9", "7", "3">>, <<"9", "6", "6">>, <<"9", "7", "1">>,
                       <<"9", "6", "5">>, <<"9", "6", "8">>, <<"9", "7", "4">>,
                       <<"1">>, <<"4", "4">> } : SubSeq(d, 1, Len(c)) = c)
        => /\ res.e164 = <<"+">> \o d
           /\ res.plus = <<"+">> \o d
           /\ res.zeros = <<"+">> \o d

\* the three forms of 9732 3456 789 were normalized
C13_Witness ==
    /\ res.fn = "forms"
    /\ inp.a = <<"9", "7", "3", "2", " ", "3", "4", "5", "6", " ", "7", "8", "9">>
    /\ res.zeros = <<"+", "9", "7", "3", "2", "3", "4", "5", "6", "7", "8", "9">>

\* C14: normalizing a non-empty result of normalizeToE164 again, with the same
\* default country code, gives that result.
C14_Idempotent ==
    (res.fn = "twice" /\ res.e164 # <<>>) => res.again = res.e164

\* C15 (as claimed): arePhoneNumbersEqual(a, a) holds of every input,
\* arePhoneNumbersEqual(a, b) = arePhoneNumbersEqual(b, a), and the result is
\* true exactly when the variants of a and of b share an element.
C15_Original ==
    res.fn = "arePhoneNumbersEqual" =>
        /\ res.eqAA
        /\ res.eqAB = res.eqBA
        /\ res.eqAB <=> (Range(generatePhoneVariants(inp.a))
                           \cap Range(generatePhoneVariants(inp.b)) # {})

\* C15 (amended): arePhoneNumbersEqual(a, a) holds exactly of the inputs that
\* normalize to a non-empty string; arePhoneNumbersEqual is symmetric and true
\* exactly when the variants of its arguments share an element, that is when
\* both normalize to the same non-empty string.
C15_Equality ==
    res.fn = "arePhoneNumbersEqual" =>
        /\ res.eqAA <=> (normalizeToE164(inp.a, <<"9", "7", "3">>) # <<>>)
        /\ res.eqAB = res.eqBA
        /\ res.eqAB <=> (Range(generatePhoneVariants(inp.a))
                           \cap Range(generatePhoneVariants(inp.b)) # {})
        /\ res.eqAB <=> (/\ normalizeToE164(inp.a, <<"9", "7", "3">>) # <<>>
                         /\ normalizeToE164(inp.a, <<"9", "7", "3">>)
                              = normalizeToE164(inp.b, <<"9", "7", "3">>))

\* two inputs written differently were found equal
C15_Witness ==
    /\ res.fn = "arePhoneNumbersEqual"
    /\ inp.a # inp.b
    /\ res.eqAB /\ res.eqBA /\ res.eqAA


RECURSIVE Concat(_)
Concat(ss) == IF ss = <<>> THEN <<>> ELSE Head(ss) \o Concat(Tail(ss))

NoRepeats(s) == \A i, j \in DOMAIN s : s[i] = s[j] => i = j

\* C16: findAppUsersByPhones issues ceil(n / 10) queries for a list of n phone
\* numbers, none with more than 10 values, and the queries taken in order
\* carry the list element by element, so each element is in exactly one query
\* (and each value, when the list has no repeats); an empty list issues no
\* query and returns the empty mapping, a list of 15 issues exactly 2.
C16_Batching ==
    LET phoneNumbers == inp.phoneNumbers
        n == Len(phoneNumbers)
    IN  /\ \A k \in DOMAIN res.asked : Len(res.asked[k]) <= 10
        /\ Len(res.asked) <= (n + 9) \div 10
        /\ res.st = "returned" =>
             /\ Len(res.asked) = (n + 9) \div 10
             /\ Concat(res.asked) = phoneNumbers
             /\ NoRepeats(phoneNumbers) =>
                  \A i \in 1..n :
                      Cardinality({k \in DOMAIN res.asked :
                                      phoneNumbers[i] \in Range(res.asked[k])}) = 1
             /\ n = 0 => res.asked = <<>> /\ res.value = Some(<<>>)
             /\ n = 15 => Len(res.asked) = 2

C16_Witness ==
    /\ res.st = "returned"
    /\ Len(inp.phoneNumbers) = 15
    /\ Len(res.asked) = 2
    /\ Len(res.asked[2]) = 5

\* the keys a query for the values of batch puts into the mapping
Contributed(batch) ==
    {ToE164(Directory[d].phone) :
        d \in {d \in DOMAIN Directory : Directory[d].phone \in Range(batch)}}

\* C17: when the query of a batch throws, the queries of all remaining batches
\* are still issued, findAppUsersByPhones returns a mapping, and that mapping
\* holds exactly the entries of the batches whose query succeeded.
C17_FailureIsolation ==
    (res.st = "returned" /\ inp.phoneNumbers # <<>>) =>
        LET succeeded == (DOMAIN res.asked) \ res.failed
        IN  /\ Len(res.asked) = (Len(inp.phoneNumbers) + 9) \div 10
            /\ res.value # None
            /\ DOMAIN res.value[1] = UNION {Contributed(res.asked[k]) : k \in succeeded}
            /\ \A key \in DOMAIN res.value[1] :
                   \E k \in succeeded : \E d \in DOMAIN Directory :
                       /\ Directory[d].phone \in Range(res.asked[k])
                       /\ ToE164(Directory[d].phone) = key
                       /\ res.value[1][key] = Directory[d]

C17_Witness ==
    /\ res.st = "returned"
    /\ res.failed = {2}
    /\ Len(res.asked) = 3
    /\ Cardinality(DOMAIN res.value[1]) = 2

\* C18: called with phone numbers that normalizeToE164 produced, against a
\* directory that returns only records whose phone is one of the queried
\* values, findAppUsersByPhones returns a mapping all of whose keys are
\* elements of the list it was given.
C18_NoExtraneousKeys ==
    (/\ res.st = "returned"
     /\ \A i \in DOMAIN inp.phoneNumbers :
            \E k \in 1..MaxPhones : inp.phoneNumbers[i] = ToE164(PoolRaw(k)))
    => DOMAIN res.value[1] \subseteq Range(inp.phoneNumbers)


\* C19: every contact that fetchDeviceContacts returns has at least one
\* non-empty normalized phone; an address-book entry none of whose phone
\* numbers normalizes is dropped.
C19_HasNormalizedPhone ==
    \A p \in Tasks :
        \A i \in DOMAIN pass[p].deviceContacts :
            \E j \in DOMAIN pass[p].deviceContacts[i].normalizedPhones :
                pass[p].deviceContacts[i].normalizedPhones[j] # <<>>


\* C20: mergeContactsWithUsers links to each contact the record mapped by the
\* first element of normalizedPhones, in list order, that has an entry in the
\* mapping; isAppUser holds exactly when some normalized phone has an entry,
\* and no record is linked otherwise. With phones "+97312345678" and
\* "+97399999999" of which only the second is mapped, the second's record is
\* linked.
C20_FirstMatchWins ==
    res.st = "merged" =>
        /\ Len(res.merged) = Len(inp.deviceContacts)
        /\ \A i \in DOMAIN inp.deviceContacts :
               LET phones == inp.deviceContacts[i].normalizedPhones
                   hits == {j \in DOMAIN phones : phones[j] \in DOMAIN inp.appUsers}
                   m == res.merged[i]
               IN  /\ m.isAppUser = (hits # {})
                   /\ hits = {} => m.userProfile = None
                   /\ \A j \in hits :
                          (\A k \in hits : j <= k) =>
                              m.userProfile = Some(inp.appUsers[phones[j]])
                   /\ (/\ phones = << <<"+", "9", "7", "3", "1", "2", "3", "4", "5", "6", "7", "8">>,
                                      <<"+", "9", "7", "3", "9", "9", "9", "9", "9", "9", "9", "9">> >>
                       /\ DOMAIN inp.appUsers =
                              { <<"+", "9", "7", "3", "9", "9", "9", "9", "9", "9", "9", "9">> })
                      => /\ m.isAppUser
                         /\ m.userProfile = Some(inp.appUsers[phones[2]])

\* the first phone has no entry, the second and the third have different ones
C20_Witness ==
    /\ res.st = "merged"
    /\ LET phones == inp.deviceContacts[1].normalizedPhones
       IN  /\ Len(phones) = 3
           /\ phones[1] \notin DOMAIN inp.appUsers
           /\ phones[2] \in DOMAIN inp.appUsers
           /\ phones[3] \in DOMAIN inp.appUsers
           /\ inp.appUsers[phones[2]] # inp.appUsers[phones[3]]
           /\ res.merged[1].isAppUser
           /\ res.merged[1].userProfile = Some(inp.appUsers[phones[2]])


\* the codes and national lengths that have a grouping rule of their own
HasGroupingRule(countryCode, nationalNumber) ==
    \/ countryCode = <<"9", "7", "3">> /\ Len(nationalNumber) = 8
    \/ countryCode = <<"9", "6", "6">> /\ Len(nationalNumber) = 9
    \/ countryCode = <<"1">> /\ Len(nationalNumber) = 10

\* C21: formatPhoneForDisplay returns its input unchanged whenever the input
\* does not normalize or its country code has no grouping rule of its own
\* (973 with 8 national digits, 966 with 9, 1 with 10).
C21_RawFallback ==
    res.fn = "formatPhoneForDisplay" =>
        LET normalized == normalizePhoneNumber(inp.a, DefaultCountryCode)
        IN  ~HasGroupingRule(normalized.countryCode, normalized.nationalNumber)
                => res.display = inp.a


\* C22: a performSync pass whose device read gives no contact (the address
\* book is empty, the permission is denied, or the read fails) resolves to the
\* empty list and issues no directory query.
C22_EmptyReadShortCircuit ==
    /\ \A p \in Tasks :
           (InFlight(p) /\ Books[book] = <<>>) =>
               /\ pass[p].queries = 0
               /\ pass[p].st \in {"permission", "getContacts"}
    /\ \A t \in Tasks :
           (/\ last[t].how = "pass"
            /\ \/ Books[book] = <<>>
               \/ last[t].read \in {"none", "empty"})
           => /\ last[t].result = <<>>
              /\ last[t].outcome = "fulfilled"
              /\ last[t].queries = 0

\* a pass that was denied the permission to a non-empty address book resolved
C22_Witness ==
    \E t \in Tasks :
        /\ last[t].how = "pass" /\ last[t].read = "none"
        /\ Books[book] # <<>>
        /\ last[t].result = <<>> /\ last[t].queries = 0


\* C23: whenever another caller can run, isSyncing is true exactly when
\* syncPromise is non-null.
C23_LatchAtomic == isSyncing <=> (syncPromise # 0)

\* a caller arrived while the latch was set and awaits the shared promise
C23_Witness ==
    \E p, t \in Tasks :
        /\ p # t
        /\ isSyncing /\ syncPromise = p
        /\ InFlight(p)
        /\ pc[t] = "attached" /\ waitOn[t] = p


\* C24: a pass issues its snapshot write only after the last of its directory
\* queries has settled, each settled query having either added its records to
\* the mapping or, when it failed, left the mapping as it was; the snapshot
\* that is written holds the mapping so collected.
C24_WriteAfterBatches ==
    [][\A p \in Tasks :
          /\ (pass[p].st = "getDocs" /\ pass'[p] # pass[p]) =>
                /\ DOMAIN pass[p].userMap \subseteq DOMAIN pass'[p].userMap
                /\ \A key \in DOMAIN pass[p].userMap :
                       pass'[p].userMap[key] = pass[p].userMap[key]
                /\ \/ DOMAIN pass'[p].userMap = DOMAIN pass[p].userMap
                   \/ DOMAIN pass'[p].userMap =
                          DOMAIN pass[p].userMap \cup
                              Contributed(pass[p].batches[pass[p].i])
                /\ pass'[p].st \in {"getDocs", "setItem"}
                /\ pass'[p].st = "setItem" <=> pass[p].queries = Len(pass[p].batches)
          /\ (pass[p].st = "getDocs" /\ pass'[p].st = "setItem") =>
                /\ pass'[p].queries =
                       (Len(AllPhones(pass[p].deviceContacts)) + 9) \div 10
                /\ pass'[p].cache[1].appUsers = pass'[p].userMap
          /\ (pass[p].st = "setItem" /\ pass'[p].st = "none" /\ storage' # storage) =>
                /\ JSONparse(storage'[1]).appUsers = pass[p].userMap
                /\ pass[p].queries =
                       (Len(AllPhones(pass[p].deviceContacts)) + 9) \div 10
      ]_vars

\* a snapshot holds the users found by the first and by the second query
C24_Witness ==
    /\ storage # None
    /\ Cardinality(DOMAIN JSONparse(storage[1]).appUsers) = 2
    /\ \E t \in Tasks : last[t].how = "pass" /\ last[t].queries = 2 /\ last[t].write = "ok"


\* a clearContactsCache() call has completed while pass p was in flight
ClearedDuring(p) ==
    /\ InFlight(p)
    /\ \E u \in Tasks : last[u].op = "clearContactsCache"

\* C25: clearContactsCache() changes nothing but the persisted item: its
\* steps leave isSyncing, syncPromise, every pass and every awaiting caller as
\* they were.  A pass in flight when it completes still completes; a pass
\* that gets to its snapshot write hands the list merged from its own device
\* read and directory result to every caller awaiting it, and the item holds
\* its snapshot when the write succeeds.
C25_ClearIsLocal ==
    /\ [][/\ \A t \in Tasks :
               (\/ (~Pending(t) /\ op'[t] = "clearContactsCache")
                \/ (pc[t] = "removeItem" /\ pc'[t] = "idle"))
               => /\ UNCHANGED <<isSyncing, syncPromise, pass>>
                  /\ \A u \in Tasks \ {t} : pc'[u] = pc[u] /\ waitOn'[u] = waitOn[u]
                  /\ storage' \in {storage, None}
          /\ \A p \in Tasks :
               (pass[p].st = "setItem" /\ pass'[p].st = "none") =>
                   /\ \A t \in Tasks :
                          (Pending(t) /\ waitOn[t] = p) =>
                              /\ pc'[t] = "idle"
                              /\ last'[t].outcome = "fulfilled"
                              /\ last'[t].result =
                                     Finish(op[t], arg[t],
                                            mergeContactsWithUsers(pass[p].deviceContacts,
                                                                   pass[p].userMap))
                   /\ last'[p].setItems = 1
                   /\ last'[p].write = "ok" =>
                          storage' = Some(JSONstringify(pass[p].cache[1]))
         ]_vars
    /\ \A p \in Tasks :
           ClearedDuring(p) ~> (last[p].how = "pass" /\ last[p].outcome = "fulfilled")

\* a clearContactsCache() called after refreshContacts() started its pass has
\* completed, and the pass has gone on to its snapshot write
C25_Witness ==
    \E p, u \in Tasks :
        /\ op[p] = "refreshContacts" /\ pass[p].st = "setItem"
        /\ isSyncing /\ syncPromise = p
        /\ last[u].op = "clearContactsCache" /\ last[u].cid > cid[p]


\* C26: whenever isSyncing is false and syncPromise is null, no performSync
\* pass is executing.
C26_LatchReflectsPasses ==
    (~isSyncing /\ syncPromise = 0) => \A p \in Tasks : ~InFlight(p)


\* C27: a pass that ends on zero device contacts neither writes nor deletes
\* the persisted snapshot, and the getContacts() call that follows it while
\* the older snapshot is younger than SYNC_INTERVAL is served that snapshot's
\* contacts, not the empty list of the pass (its own read of the item failing
\* is the one case in which it runs a pass instead).
C27_EmptyPassKeepsSnapshot ==
    [][/\ \A p \in Tasks :
            (/\ InFlight(p) /\ pass'[p].st = "none"
             /\ last'[p].read \in {"none", "empty"})
            => /\ storage' = storage
               /\ last'[p].setItems = 0
               /\ last'[p].result = <<>>
       /\ \A t \in Tasks :
            (/\ pc[t] = "getItem" /\ pc'[t] # "getItem"
             /\ op[t] = "getContacts" /\ cid[t] = calls
             /\ prev[t].how = "pass" /\ prev[t].read \in {"none", "empty"}
             /\ storage # None
             /\ (now - JSONparse(storage[1]).lastSyncTime) * TickMs < 5 * 60 * 1000)
            => \/ /\ pc'[t] = "idle"
                  /\ last'[t].how = "hit"
                  /\ last'[t].result =
                         mergeContactsWithUsers(JSONparse(storage[1]).contacts,
                                                JSONparse(storage[1]).appUsers)
                  /\ Len(last'[t].result) > 0
                  /\ storage' = storage
               \/ /\ pc'[t] = "awaitPass"
                  /\ cached'[t] = None
      ]_vars

\* getContacts() was served the older snapshot after a pass that ended on
\* zero device contacts
C27_Witness ==
    \E t \in Tasks :
        /\ last[t].op = "getContacts" /\ last[t].how = "hit"
        /\ last[t].prev.how = "pass" /\ last[t].prev.read \in {"none", "empty"}
        /\ Len(last[t].result) > 0
        /\ storage # None


\* C28: a snapshot written over another never holds device contacts that were
\* read from the address book before the contacts of the snapshot it
\* overwrites; in particular a snapshot with a newer lastSyncTime (built, and
\* its write issued, after the one it overwrites) never holds older contacts.
C28_SnapshotMonotonic ==
    [][\A p \in Tasks :
          (/\ pass[p].st = "setItem" /\ pass'[p].st = "none"
           /\ last'[p].write = "ok"
           /\ storage # None /\ held # 0
           /\ pass[p].cache[1].lastSyncTime > JSONparse(storage[1]).lastSyncTime)
          => pass[p].readNo >= held
      ]_vars


\* C29: every non-empty string that normalizeToE164 returns is "+" followed
\* by at least 7 digits.
C29_CanonicalShape ==
    (res.fn = "normalizeToE164" /\ res.e164 # <<>>) =>
        /\ Head(res.e164) = "+"
        /\ \A i \in 2..Len(res.e164) : res.e164[i] \in Digits
        /\ Len(res.e164) - 1 >= 7


\* C30: the callback is never given the results of an earlier query after
\* those of a later one, so its last invocation carries the results of the
\* most recent query that was searched; a call superseded while its timer was
\* set never has its callback invoked.
C30_SearchOrdering ==
    /\ \A i, j \in DOMAIN res.delivered :
           i < j => res.delivered[i].id < res.delivered[j].id
    /\ (res.timers = {} /\ res.running = {} /\ res.delivered # <<>>) =>
           res.delivered[Len(res.delivered)].id = res.made

=============================================================================
